---------------------------- MODULE Spec2Model ----------------------------
(***************************************************************************)
(* Verification model of the SOC design-pattern programs of the            *)
(* repository: the composite sink tree, the SIEM sender proxy, the event   *)
(* sender factory, the SIEM client singleton and the audit decorator.      *)
(* Each program is an independent script; each gets its own specification  *)
(* over its own variables, the other programs' variables staying idle.     *)
(***************************************************************************)
EXTENDS Integers, Sequences, FiniteSets, TLC

VARIABLES
    \* composite_design_pattern_soc.py
    children,            \* CompositeSink._children, per composite
    allowed_severities,  \* FilteredCompositeSink.allowed_severities
    allowed_kinds,       \* FilteredCompositeSink.allowed_kinds
    csCall,              \* the last client call on the tree and what it did
    csOps,               \* number of add/remove calls made so far
    \* design_pattern_proxy_soc.py
    token,               \* SIEMSenderProxy.token
    rate_limit_per_sec,  \* SIEMSenderProxy.rate_limit_per_sec
    last_window_start,   \* SIEMSenderProxy._last_window_start
    count_in_window,     \* SIEMSenderProxy._count_in_window
    real,                \* SIEMSenderProxy._real: None or the sender built
    now,                 \* time.time(), in ticks of 0.2 s
    pxBuilt,             \* number of RealSIEMSender objects constructed
    pxWin,               \* what the sends of the current window did
    pxCall,              \* the last send call and what it did
    \* design_pattern_factory_soc.py
    fxEnv,               \* os.environ as EventSenderFactory.create reads it
    fxArgs,              \* the arguments of the create call
    fxOut,               \* what the create call did, once it was made
    \* design_pattern_singleton_soc.py
    _instance,           \* SIEMClient._instance: None or the client stored
    sgObjects,           \* every SIEMClient object constructed so far
    sgHandle,            \* the client each call site holds
    sgSent,              \* the send_event calls made through get_instance handles
    sgCall,              \* the last call on SIEMClient and how it ended
    \* decorator_design_pattern_soc.py / design_pattern_decorator_soc.py
    auLog,               \* the lines of the audit log file
    auCall,              \* the last audited call and what its caller observed
    \* async_audit.py
    aaLog,               \* the lines of the audit log file, by index of the event
    aaMode,              \* how the caller issues its events: awaited one by one, or gathered
    \* concurrent callers of one SIEMSenderProxy or of SIEMClient.get_instance
    thPc,                \* the source line each caller is about to execute
    thLocal              \* each caller's local variables

compositeVars == <<children, allowed_severities, allowed_kinds, csCall, csOps>>

proxyVars == <<token, rate_limit_per_sec, last_window_start, count_in_window,
               real, now, pxBuilt, pxWin, pxCall>>

factoryVars == <<fxEnv, fxArgs, fxOut>>

singletonVars == <<_instance, sgObjects, sgHandle, sgSent, sgCall>>

auditVars == <<auLog, auCall>>

asyncVars == <<aaLog, aaMode>>

threadVars == <<thPc, thLocal>>

vars == <<compositeVars, proxyVars, factoryVars, singletonVars, auditVars, asyncVars,
          threadVars>>

\* the state of the other programs, beside the proxy's and beside the
\* singleton's
besideProxy == <<compositeVars, factoryVars, singletonVars, auditVars, asyncVars>>
besideSingleton == <<compositeVars, proxyVars, factoryVars, auditVars, asyncVars>>
besideAsync == <<compositeVars, proxyVars, factoryVars, singletonVars, auditVars>>

notComposite == <<proxyVars, factoryVars, singletonVars, auditVars, asyncVars, threadVars>>
notProxy == <<besideProxy, threadVars>>
notFactory == <<compositeVars, proxyVars, singletonVars, auditVars, asyncVars, threadVars>>
notSingleton == <<besideSingleton, threadVars>>
notAudit == <<compositeVars, proxyVars, factoryVars, singletonVars, asyncVars, threadVars>>

(***************************************************************************)
(* Python values                                                           *)
(***************************************************************************)
\* dict.get(k) of a missing key, and every other Python None
PyNone == "None"

\* an Optional[set] parameter left at None
NoFilter == [unset |-> TRUE]

\* an Optional[set] parameter given the set S
FilterOf(S) == [unset |-> FALSE, items |-> S]

\* truth value of an Optional[str]
Truthy(s) == s # PyNone /\ s # ""

\* a or b, on Optional[str]
Or(a, b) == IF Truthy(a) THEN a ELSE b

\* event.get(k)
Get(e, k) == IF k \in DOMAIN e THEN e[k] ELSE PyNone

(***************************************************************************)
(* composite_design_pattern_soc.py                                         *)
(***************************************************************************)
MaxOps == 1
MaxChildren == 3

\* the add and remove calls made when only the children lists are edited
MaxEdits == 3

Leaves == {"elastic", "splunk"}
PlainComposites == {"root", "eu", "us"}
FilteredComposites == {"oncall"}
Composites == PlainComposites \cup FilteredComposites
Sinks == Composites \cup Leaves

\* depth of a sink in the routing tree; a composite only holds deeper sinks
Level(n) == IF n = "root" THEN 0 ELSE IF n \in Leaves THEN 2 ELSE 1

Severities == {"medium", "high"}
Kinds == {"auth", "network"}

\* the events the monitors build, and events lacking a kind or a severity
Events ==
    {[kind |-> "auth", severity |-> "medium", message |-> "Failed login detected",
      username |-> "alice", ip |-> "203.0.113.25"],
     [kind |-> "network", severity |-> "high", message |-> "Port scan detected",
      src_ip |-> "198.51.100.10", dst_ip |-> "10.0.0.5"],
     [kind |-> "network", message |-> "Port scan detected"],
     [severity |-> "high", message |-> "Port scan detected"]}

\* the result of one send call: the calls it made, in order, and whether it raised
Returned(tr) == [trace |-> tr, raised |-> FALSE]
Raised(tr) == [trace |-> tr, raised |-> TRUE]

\* one call c.send(event) made by composite n
CallOf(n, c, e) == [caller |-> n, sink |-> c, event |-> e]

RECURSIVE SinkSend(_, _, _)
RECURSIVE FanOut(_, _, _, _)

\* ElasticSink.send / SplunkSink.send: serialise and print; the call raises
\* when the environment makes it fail (failing names the leaves that raise)
LeafSend(n, e, failing) ==
    IF n \in failing THEN Raised(<<>>) ELSE Returned(<<>>)

\* CompositeSink.send with every child's failure caught and the loop going on
RECURSIVE FanOut_isolated(_, _, _, _)
FanOut_isolated(n, e, failing, i) ==
    IF i > Len(children[n]) THEN Returned(<<>>)
    ELSE LET c == children[n][i]
             r == SinkSend(c, e, failing)
             rest == FanOut_isolated(n, e, failing, i + 1)
         IN  [trace |-> <<CallOf(n, c, e)>> \o r.trace \o rest.trace,
              raised |-> r.raised \/ rest.raised]

\* the for loop skipping a child that was already called earlier in the loop
RECURSIVE FanOut_dedup(_, _, _, _)
FanOut_dedup(n, e, failing, i) ==
    IF i > Len(children[n]) THEN Returned(<<>>)
    ELSE LET c == children[n][i]
             r == SinkSend(c, e, failing)
             here == <<CallOf(n, c, e)>> \o r.trace
         IN  IF \E j \in 1..(i - 1) : children[n][j] = c
             THEN FanOut_dedup(n, e, failing, i + 1)
             ELSE IF r.raised THEN Raised(here)
             ELSE LET rest == FanOut_dedup(n, e, failing, i + 1)
                  IN  [trace |-> here \o rest.trace, raised |-> rest.raised]

\* the for loop of CompositeSink.send from child i on: an exception of a
\* child leaves the loop at once
FanOut(n, e, failing, i) ==
    IF i > Len(children[n]) THEN Returned(<<>>)
    ELSE LET c == children[n][i]
             r == SinkSend(c, e, failing)
             here == <<CallOf(n, c, e)>> \o r.trace
         IN  IF r.raised THEN Raised(here)
             ELSE LET rest == FanOut(n, e, failing, i + 1)
                  IN  [trace |-> here \o rest.trace, raised |-> rest.raised]

\* CompositeSink.send with the loop starting one child late
CompositeSend_skip_first(n, e, failing) == FanOut(n, e, failing, 2)

\* CompositeSink.send
CompositeSend(n, e, failing) == FanOut(n, e, failing, 1)

\* the severity test with "not in" written for "in"
sev_ok_not_in(n, e) ==
    allowed_severities[n].unset \/ Get(e, "severity") \notin allowed_severities[n].items

\* the severity test letting an event without a severity through
sev_ok_missing_passes(n, e) ==
    \/ allowed_severities[n].unset
    \/ "severity" \notin DOMAIN e
    \/ Get(e, "severity") \in allowed_severities[n].items

\* the filter test of FilteredCompositeSink.send
sev_ok(n, e) ==
    allowed_severities[n].unset \/ Get(e, "severity") \in allowed_severities[n].items

kind_ok(n, e) ==
    allowed_kinds[n].unset \/ Get(e, "kind") \in allowed_kinds[n].items

\* FilteredCompositeSink.send with the two tests joined by "or"
FilteredSend_either(n, e, failing) ==
    IF ~(sev_ok(n, e) \/ kind_ok(n, e)) THEN Returned(<<>>)
    ELSE CompositeSend(n, e, failing)

\* FilteredCompositeSink.send
FilteredSend(n, e, failing) ==
    IF ~(sev_ok(n, e) /\ kind_ok(n, e)) THEN Returned(<<>>)
    ELSE CompositeSend(n, e, failing)

\* dynamic dispatch of sink.send(event)
SinkSend(n, e, failing) ==
    IF n \in Leaves THEN LeafSend(n, e, failing)
    ELSE IF n \in FilteredComposites THEN FilteredSend(n, e, failing)
    ELSE CompositeSend(n, e, failing)

NoCall == [op |-> "none"]

\* the leaves the environment makes fail during one client call
Failings == {{}} \cup {{l} : l \in Leaves}

\* the tree the demo builds, the filter of the on-call group drawn from the
\* configurations a caller can pass
CompositeInit ==
    /\ children = [n \in Composites |->
                     CASE n = "root" -> <<"eu", "us", "oncall">>
                       [] n = "eu" -> <<"elastic">>
                       [] n = "us" -> <<"splunk">>
                       [] n = "oncall" -> <<"splunk">>]
    /\ allowed_severities \in
         [FilteredComposites -> {NoFilter, FilterOf({}), FilterOf({"high"})}]
    /\ allowed_kinds \in [FilteredComposites -> {NoFilter, FilterOf({"auth"})}]
    /\ csCall = NoCall
    /\ csOps = 0

\* a producer calls sink.send(event) on any sink of the tree
ClientSend(n, e, failing) ==
    /\ LET r == SinkSend(n, e, failing)
       IN  csCall' = [op |-> "send", target |-> n, event |-> e, failing |-> failing,
                      trace |-> r.trace, raised |-> r.raised]
    /\ UNCHANGED <<children, allowed_severities, allowed_kinds, csOps>>
    /\ UNCHANGED notComposite

\* CompositeSink.add
Add(n, c) ==
    /\ Len(children[n]) < MaxChildren
    /\ Level(c) > Level(n)
    /\ children' = [children EXCEPT ![n] = Append(@, c)]
    /\ csCall' = [op |-> "add", target |-> n, child |-> c, raised |-> FALSE,
                  before |-> children[n]]
    /\ csOps' = csOps + 1
    /\ UNCHANGED <<allowed_severities, allowed_kinds>>
    /\ UNCHANGED notComposite

\* list.remove deleting every occurrence of c
RemoveFirst_every(s, c) == SelectSeq(s, LAMBDA x : x # c)

\* list.remove: the sequence without its first occurrence of c
RECURSIVE RemoveFirst(_, _)
RemoveFirst(s, c) ==
    IF s = <<>> THEN <<>>
    ELSE IF Head(s) = c THEN Tail(s)
    ELSE <<Head(s)>> \o RemoveFirst(Tail(s), c)

InSeq(s, c) == \E i \in 1..Len(s) : s[i] = c

\* CompositeSink.remove: ValueError when c is not a child
Remove(n, c) ==
    /\ children' = [children EXCEPT
                      ![n] = IF InSeq(@, c) THEN RemoveFirst(@, c) ELSE @]
    /\ csCall' = [op |-> "remove", target |-> n, child |-> c,
                  raised |-> ~InSeq(children[n], c), before |-> children[n]]
    /\ csOps' = csOps + 1
    /\ UNCHANGED <<allowed_severities, allowed_kinds>>
    /\ UNCHANGED notComposite

CompositeNext ==
    \/ \E n \in Composites, e \in Events, failing \in Failings :
          ClientSend(n, e, failing)
    \/ csOps < MaxOps /\ \E n \in Composites, c \in Sinks : Add(n, c)
    \/ csOps < MaxOps /\ \E n \in Composites, c \in Sinks : Remove(n, c)

\* the routing tree being edited, with no event sent
ChildrenNext ==
    \/ csOps < MaxEdits /\ \E n \in Composites, c \in Sinks : Add(n, c)
    \/ csOps < MaxEdits /\ \E n \in Composites, c \in Sinks : Remove(n, c)

CompositeIdle ==
    /\ children = [n \in Composites |-> <<>>]
    /\ allowed_severities = [n \in FilteredComposites |-> NoFilter]
    /\ allowed_kinds = [n \in FilteredComposites |-> NoFilter]
    /\ csCall = NoCall
    /\ csOps = 0

(***************************************************************************)
(* design_pattern_proxy_soc.py                                             *)
(***************************************************************************)
MaxBudget == 2
MaxTime == 7
MaxBurst == 4

\* the window length 1.0 s and the sleep of 0.2 s in ticks of 0.2 s
TicksPerSec == 5
SleepTicks == 1

\* the empty slot _real (None); the senders built are numbered from 1
NoSender == 0

\* token or os.getenv("SIEM_TOKEN")
ResolveToken(arg, env) == IF Truthy(arg) THEN arg ELSE env

ProxyEvents ==
    {[kind |-> "auth", severity |-> "medium", message |-> "Failed login detected"],
     [kind |-> "network", severity |-> "high", message |-> "Port scan detected"]}

NewWindow == [seen |-> 0, delegated |-> 0, dropped |-> 0]

\* SIEMSenderProxy.__init__
ProxyInit ==
    /\ \E arg \in {PyNone, "", "arg-token"}, env \in {PyNone, "", "demo-token"} :
          token = ResolveToken(arg, env)
    /\ rate_limit_per_sec \in 0..MaxBudget
    /\ real = NoSender
    /\ now = 0
    /\ last_window_start = now
    /\ count_in_window = 0
    /\ pxBuilt = 0
    /\ pxWin = NewWindow
    /\ pxCall = NoCall

\* _allow with the budget test off by one
_allow_off_by_one(t) ==
    LET expired == t - last_window_start >= TicksPerSec
        start == IF expired THEN t ELSE last_window_start
        count == IF expired THEN 0 ELSE count_in_window
        ok == count <= rate_limit_per_sec
    IN  [expired |-> expired, start |-> start,
         count |-> IF ok THEN count + 1 ELSE count, ok |-> ok]

\* _allow without the budget test: every send is counted and let through
_allow_no_budget_test(t) ==
    LET expired == t - last_window_start >= TicksPerSec
        start == IF expired THEN t ELSE last_window_start
        count == IF expired THEN 0 ELSE count_in_window
    IN  [expired |-> expired, start |-> start, count |-> count + 1, ok |-> TRUE]

\* _allow counting the sends it refuses as well
_allow_counts_drops(t) ==
    LET expired == t - last_window_start >= TicksPerSec
        start == IF expired THEN t ELSE last_window_start
        count == IF expired THEN 0 ELSE count_in_window
        ok == count < rate_limit_per_sec
    IN  [expired |-> expired, start |-> start, count |-> count + 1, ok |-> ok]

\* SIEMSenderProxy._allow at time t: the window start and the counter it
\* leaves, and its return value
_allow(t) ==
    LET expired == t - last_window_start >= TicksPerSec
        start == IF expired THEN t ELSE last_window_start
        count == IF expired THEN 0 ELSE count_in_window
        ok == count < rate_limit_per_sec
    IN  [expired |-> expired, start |-> start,
         count |-> IF ok THEN count + 1 ELSE count, ok |-> ok]

\* _ensure_real without the test of the slot: a sender built on every call
_ensure_real_always ==
    IF ~Truthy(token) THEN [real |-> real, raised |-> TRUE, built |-> 0]
    ELSE [real |-> pxBuilt + 1, raised |-> FALSE, built |-> 1]

\* SIEMSenderProxy._ensure_real: the slot it leaves, whether it raised, and
\* the number of RealSIEMSender objects it constructed
_ensure_real ==
    IF real # NoSender THEN [real |-> real, raised |-> FALSE, built |-> 0]
    ELSE IF ~Truthy(token) THEN [real |-> real, raised |-> TRUE, built |-> 0]
    ELSE [real |-> pxBuilt + 1, raised |-> FALSE, built |-> 1]

\* the window record after one more send with the given outcome
Seen(w, outcome) ==
    [seen |-> w.seen + 1,
     delegated |-> w.delegated + (IF outcome = "dropped" THEN 0 ELSE 1),
     dropped |-> w.dropped + (IF outcome = "dropped" THEN 1 ELSE 0)]

\* send with the rate limit consulted before the access control
SendUnauthorized_after_allow(e) ==
    /\ ~Truthy(token)
    /\ LET a == _allow(now)
       IN  /\ last_window_start' = a.start
           /\ count_in_window' = a.count
    /\ pxCall' = [op |-> "send", event |-> e, result |-> "unauthorized",
                  expired |-> FALSE, via |-> NoSender, at |-> now,
                  closed |-> NewWindow, before |-> pxWin]
    /\ UNCHANGED <<token, rate_limit_per_sec, real, now, pxBuilt, pxWin>>
    /\ UNCHANGED notProxy

\* SIEMSenderProxy.send, access control failing
SendUnauthorized(e) ==
    /\ ~Truthy(token)
    /\ pxCall' = [op |-> "send", event |-> e, result |-> "unauthorized",
                  expired |-> FALSE, via |-> NoSender, at |-> now,
                  closed |-> NewWindow, before |-> pxWin]
    /\ UNCHANGED <<token, rate_limit_per_sec, last_window_start, count_in_window,
                   real, now, pxBuilt, pxWin>>
    /\ UNCHANGED notProxy

\* send giving the rate slot back when the delegated send raises
SendAuthorized_rollback(e, fails) ==
    /\ Truthy(token)
    /\ LET a == _allow(now)
           w == IF a.expired THEN NewWindow ELSE pxWin
           r == _ensure_real
           closed == IF a.expired THEN pxWin ELSE NewWindow
       IN  /\ w.seen < MaxBurst
           /\ last_window_start' = a.start
           /\ count_in_window' = IF a.ok /\ ~r.raised /\ fails THEN a.count - 1 ELSE a.count
           /\ IF ~a.ok
              THEN /\ pxCall' = [op |-> "send", event |-> e, result |-> "dropped",
                                 expired |-> a.expired, via |-> NoSender, at |-> now,
                                 closed |-> closed, before |-> w]
                   /\ pxWin' = Seen(w, "dropped")
                   /\ UNCHANGED <<real, now, pxBuilt>>
              ELSE IF r.raised
              THEN /\ pxCall' = [op |-> "send", event |-> e, result |-> "unauthorized",
                                 expired |-> a.expired, via |-> NoSender, at |-> now,
                                 closed |-> closed, before |-> w]
                   /\ pxWin' = w
                   /\ UNCHANGED <<real, now, pxBuilt>>
              ELSE /\ now + r.built * SleepTicks <= MaxTime
                   /\ real' = r.real
                   /\ pxBuilt' = pxBuilt + r.built
                   /\ now' = now + r.built * SleepTicks
                   /\ pxCall' = [op |-> "send", event |-> e,
                                 result |-> IF fails THEN "failed" ELSE "delegated",
                                 expired |-> a.expired, via |-> r.real, at |-> now,
                                 closed |-> closed, before |-> w]
                   /\ pxWin' = Seen(w, "delegated")
    /\ UNCHANGED <<token, rate_limit_per_sec>>
    /\ UNCHANGED notProxy

\* SIEMSenderProxy.send with a token: rate limit, lazy creation, delegation;
\* fails tells whether RealSIEMSender.send raises
SendAuthorized(e, fails) ==
    /\ Truthy(token)
    /\ LET a == _allow(now)
           w == IF a.expired THEN NewWindow ELSE pxWin
           r == _ensure_real
           closed == IF a.expired THEN pxWin ELSE NewWindow
       IN  /\ w.seen < MaxBurst
           /\ last_window_start' = a.start
           /\ count_in_window' = a.count
           /\ IF ~a.ok
              THEN /\ pxCall' = [op |-> "send", event |-> e, result |-> "dropped",
                                 expired |-> a.expired, via |-> NoSender, at |-> now,
                                 closed |-> closed, before |-> w]
                   /\ pxWin' = Seen(w, "dropped")
                   /\ UNCHANGED <<real, now, pxBuilt>>
              ELSE IF r.raised
              THEN /\ pxCall' = [op |-> "send", event |-> e, result |-> "unauthorized",
                                 expired |-> a.expired, via |-> NoSender, at |-> now,
                                 closed |-> closed, before |-> w]
                   /\ pxWin' = w
                   /\ UNCHANGED <<real, now, pxBuilt>>
              ELSE /\ now + r.built * SleepTicks <= MaxTime
                   /\ real' = r.real
                   /\ pxBuilt' = pxBuilt + r.built
                   /\ now' = now + r.built * SleepTicks
                   /\ pxCall' = [op |-> "send", event |-> e,
                                 result |-> IF fails THEN "failed" ELSE "delegated",
                                 expired |-> a.expired, via |-> r.real, at |-> now,
                                 closed |-> closed, before |-> w]
                   /\ pxWin' = Seen(w, "delegated")
    /\ UNCHANGED <<token, rate_limit_per_sec>>
    /\ UNCHANGED notProxy

\* the clock advances between two calls
Tick ==
    /\ now < MaxTime
    /\ now' = now + 1
    /\ UNCHANGED <<token, rate_limit_per_sec, last_window_start, count_in_window,
                   real, pxBuilt, pxWin, pxCall>>
    /\ UNCHANGED notProxy

ProxyNext ==
    \/ \E e \in ProxyEvents : SendUnauthorized(e)
    \/ \E e \in ProxyEvents, fails \in BOOLEAN : SendAuthorized(e, fails)
    \/ Tick

ProxyIdle ==
    /\ token = PyNone
    /\ rate_limit_per_sec = 0
    /\ real = NoSender
    /\ now = 0
    /\ last_window_start = 0
    /\ count_in_window = 0
    /\ pxBuilt = 0
    /\ pxWin = NewWindow
    /\ pxCall = NoCall

\* no concurrent callers
ThreadsIdle ==
    /\ thPc = <<>>
    /\ thLocal = <<>>

(***************************************************************************)
(* design_pattern_proxy_soc.py, several threads calling send on one proxy. *)
(* The class takes no lock, so the threads' statements interleave; a       *)
(* caller's position is the source line it executes next.                  *)
(***************************************************************************)
NThreads == 2
Threads == 1..NThreads

\* the sends all threads together may start
MaxSends == 3

\* the locals of _allow and of the construction in _ensure_real
NoLocals == [now |-> 0, count |-> 0, built |-> NoSender]

\* thread t moves to line pc
Goto(t, pc) == thPc' = [thPc EXCEPT ![t] = pc]

ProxyConcInit ==
    /\ \E arg \in {PyNone, "arg-token"}, env \in {PyNone, "demo-token"} :
          token = ResolveToken(arg, env)
    /\ rate_limit_per_sec \in 0..MaxBudget
    /\ real = NoSender
    /\ now = 0
    /\ last_window_start = now
    /\ count_in_window = 0
    /\ pxBuilt = 0
    /\ pxWin = NewWindow
    /\ pxCall = NoCall
    /\ thPc = [t \in Threads |-> "idle"]
    /\ thLocal = [t \in Threads |-> NoLocals]

\* a thread calls proxy.send(event)
Send_Call(t) ==
    /\ thPc[t] = "idle"
    /\ pxWin.seen < MaxSends
    /\ Goto(t, "send_126")
    /\ pxWin' = [pxWin EXCEPT !.seen = @ + 1]
    /\ UNCHANGED <<token, rate_limit_per_sec, last_window_start, count_in_window,
                   real, now, pxBuilt, pxCall, thLocal>>
    /\ UNCHANGED besideProxy

\* send: if not self.token: raise PermissionError
Send_TestToken(t) ==
    /\ thPc[t] = "send_126"
    /\ Goto(t, IF Truthy(token) THEN "allow_115" ELSE "idle")
    /\ UNCHANGED <<proxyVars, thLocal>>
    /\ UNCHANGED besideProxy

\* _allow: now = time.time()
Allow_ReadClock(t) ==
    /\ thPc[t] = "allow_115"
    /\ thLocal' = [thLocal EXCEPT ![t].now = now]
    /\ Goto(t, "allow_116")
    /\ UNCHANGED proxyVars
    /\ UNCHANGED besideProxy

\* _allow: if now - self._last_window_start >= 1.0
Allow_TestWindow(t) ==
    /\ thPc[t] = "allow_116"
    /\ Goto(t, IF thLocal[t].now - last_window_start >= TicksPerSec
                THEN "allow_117" ELSE "allow_119")
    /\ UNCHANGED <<proxyVars, thLocal>>
    /\ UNCHANGED besideProxy

\* _allow: self._last_window_start = now
Allow_StoreStart(t) ==
    /\ thPc[t] = "allow_117"
    /\ last_window_start' = thLocal[t].now
    /\ Goto(t, "allow_118")
    /\ UNCHANGED <<token, rate_limit_per_sec, count_in_window, real, now, pxBuilt,
                   pxWin, pxCall, thLocal>>
    /\ UNCHANGED besideProxy

\* _allow: self._count_in_window = 0
Allow_ResetCount(t) ==
    /\ thPc[t] = "allow_118"
    /\ count_in_window' = 0
    /\ Goto(t, "allow_119")
    /\ UNCHANGED <<token, rate_limit_per_sec, last_window_start, real, now, pxBuilt,
                   pxWin, pxCall, thLocal>>
    /\ UNCHANGED besideProxy

\* _allow: if self._count_in_window < self.rate_limit_per_sec, else return
\* False, on which send prints the drop and returns
Allow_TestBudget(t) ==
    /\ thPc[t] = "allow_119"
    /\ IF count_in_window < rate_limit_per_sec
       THEN Goto(t, "allow_120_load") /\ UNCHANGED pxWin
       ELSE Goto(t, "idle") /\ pxWin' = [pxWin EXCEPT !.dropped = @ + 1]
    /\ UNCHANGED <<token, rate_limit_per_sec, last_window_start, count_in_window,
                   real, now, pxBuilt, pxCall, thLocal>>
    /\ UNCHANGED besideProxy

\* _allow: self._count_in_window += 1, the load of the attribute
Allow_LoadCount(t) ==
    /\ thPc[t] = "allow_120_load"
    /\ thLocal' = [thLocal EXCEPT ![t].count = count_in_window]
    /\ Goto(t, "allow_120_store")
    /\ UNCHANGED proxyVars
    /\ UNCHANGED besideProxy

\* _allow: self._count_in_window += 1, the store of the sum; return True
\* follows, so the event is admitted (counted in pxWin.delegated)
Allow_StoreCount(t) ==
    /\ thPc[t] = "allow_120_store"
    /\ count_in_window' = thLocal[t].count + 1
    /\ pxWin' = [pxWin EXCEPT !.delegated = @ + 1]
    /\ Goto(t, "ensure_106")
    /\ UNCHANGED <<token, rate_limit_per_sec, last_window_start, real, now, pxBuilt,
                   pxCall, thLocal>>
    /\ UNCHANGED besideProxy

\* _ensure_real: if self._real is None (the token was tested to be set at
\* line 126 and never changes, so line 107 does not raise here)
EnsureReal_TestReal(t) ==
    /\ thPc[t] = "ensure_106"
    /\ Goto(t, IF real = NoSender THEN "ensure_111_call" ELSE "send_134")
    /\ UNCHANGED <<proxyVars, thLocal>>
    /\ UNCHANGED besideProxy

\* _ensure_real: RealSIEMSender(self.endpoint, self.token), the constructor
\* call (which sleeps 0.2 s while other threads run)
EnsureReal_Construct(t) ==
    /\ thPc[t] = "ensure_111_call"
    /\ pxBuilt' = pxBuilt + 1
    /\ thLocal' = [thLocal EXCEPT ![t].built = pxBuilt + 1]
    /\ Goto(t, "ensure_111_store")
    /\ UNCHANGED <<token, rate_limit_per_sec, last_window_start, count_in_window,
                   real, now, pxWin, pxCall>>
    /\ UNCHANGED besideProxy

\* _ensure_real: self._real = <the sender constructed>
EnsureReal_StoreReal(t) ==
    /\ thPc[t] = "ensure_111_store"
    /\ real' = thLocal[t].built
    /\ Goto(t, "send_134")
    /\ UNCHANGED <<token, rate_limit_per_sec, last_window_start, count_in_window,
                   now, pxBuilt, pxWin, pxCall, thLocal>>
    /\ UNCHANGED besideProxy

\* send: self._real.send(event), and the return of send
Send_Delegate(t) ==
    /\ thPc[t] = "send_134"
    /\ Goto(t, "idle")
    /\ thLocal' = [thLocal EXCEPT ![t] = NoLocals]
    /\ UNCHANGED proxyVars
    /\ UNCHANGED besideProxy

\* the clock advances while the threads run
ConcTick ==
    /\ now < MaxTime
    /\ now' = now + 1
    /\ UNCHANGED <<token, rate_limit_per_sec, last_window_start, count_in_window,
                   real, pxBuilt, pxWin, pxCall, thPc, thLocal>>
    /\ UNCHANGED besideProxy

ProxyConcNext ==
    \/ \E t \in Threads : Send_Call(t)
    \/ \E t \in Threads : Send_TestToken(t)
    \/ \E t \in Threads : Allow_ReadClock(t)
    \/ \E t \in Threads : Allow_TestWindow(t)
    \/ \E t \in Threads : Allow_StoreStart(t)
    \/ \E t \in Threads : Allow_ResetCount(t)
    \/ \E t \in Threads : Allow_TestBudget(t)
    \/ \E t \in Threads : Allow_LoadCount(t)
    \/ \E t \in Threads : Allow_StoreCount(t)
    \/ \E t \in Threads : EnsureReal_TestReal(t)
    \/ \E t \in Threads : EnsureReal_Construct(t)
    \/ \E t \in Threads : EnsureReal_StoreReal(t)
    \/ \E t \in Threads : Send_Delegate(t)
    \/ ConcTick

(***************************************************************************)
(* design_pattern_factory_soc.py                                           *)
(***************************************************************************)
\* a vendor key is a sequence of characters; None of an Optional[str] key
NoStr == <<PyNone>>

Whitespace == {" ", "\t", "\n"}

UpperCase == <<"A", "B", "C", "D", "E", "F", "G", "H", "I", "J", "K", "L", "M",
               "N", "O", "P", "Q", "R", "S", "T", "U", "V", "W", "X", "Y", "Z">>

LowerCase == <<"a", "b", "c", "d", "e", "f", "g", "h", "i", "j", "k", "l", "m",
               "n", "o", "p", "q", "r", "s", "t", "u", "v", "w", "x", "y", "z">>

\* str.lower, one character
lower_char(c) ==
    IF \E i \in 1..Len(UpperCase) : UpperCase[i] = c
    THEN LowerCase[CHOOSE i \in 1..Len(UpperCase) : UpperCase[i] = c]
    ELSE c

\* str.lower
lower(s) == [i \in 1..Len(s) |-> lower_char(s[i])]

\* str.lstrip and str.rstrip
RECURSIVE lstrip(_)
lstrip(s) == IF s # <<>> /\ Head(s) \in Whitespace THEN lstrip(Tail(s)) ELSE s

RECURSIVE rstrip(_)
rstrip(s) ==
    IF s # <<>> /\ s[Len(s)] \in Whitespace
    THEN rstrip(SubSeq(s, 1, Len(s) - 1))
    ELSE s

\* str.strip
strip(s) == rstrip(lstrip(s))

ELASTIC == <<"e", "l", "a", "s", "t", "i", "c">>
SPLUNK == <<"s", "p", "l", "u", "n", "k">>

\* the keys of EventSenderFactory._registry
Registry == {ELASTIC, SPLUNK}

\* the vendor argument and the SIEM_VENDOR values tried
VendorArgs ==
    {NoStr, <<>>, ELASTIC, SPLUNK,
     <<" ", "E", "l", "a", "s", "t", "i", "c", "\n">>,
     <<"S", "P", "L", "U", "N", "K">>,
     <<"s", "u", "m", "o">>, <<" ", " ">>}

EnvVendors == {NoStr, <<>>, SPLUNK, <<"E", "L", "A", "S", "T", "I", "C">>,
               <<"q", "r", "a", "d", "a", "r">>}

\* the keyword arguments **config tried: a key left out reads as None
Configs ==
    [endpoint : {PyNone, "", "cfg-endpoint"}, token : {PyNone, "cfg-token"},
     hec_url : {PyNone, "", "cfg-url"}, hec_token : {PyNone, "cfg-hec-token"}]

\* the environments tried: a variable that is not set reads as None
Environments ==
    [SIEM_VENDOR : EnvVendors,
     ELASTIC_ENDPOINT : {PyNone, "", "env-endpoint"},
     ELASTIC_TOKEN : {PyNone, "env-token"},
     SPLUNK_HEC_URL : {PyNone, "env-url"},
     SPLUNK_HEC_TOKEN : {PyNone, "", "env-hec-token"}]

\* os.getenv(name, default)
getenv(env, name, default) == IF env[name] = PyNone THEN default ELSE env[name]

\* raise ValueError(message), the message naming repr(named) when it names a key
ValueError(message, named) ==
    [raised |-> TRUE, error |-> "ValueError", message |-> message,
     named |-> named, built |-> <<>>]

\* return of a newly constructed sender
Built(sender) == [raised |-> FALSE, sender |-> sender, built |-> <<sender>>]

\* create with an unknown key answered by the Elastic sender
create_default_elastic(vendor, config, env) ==
    LET key_env == env.SIEM_VENDOR
        key_source == IF vendor # NoStr THEN vendor ELSE key_env
        key == lower(strip(key_source))
    IN  IF key_source = NoStr \/ key_source = <<>>
        THEN ValueError("SIEM vendor not specified", NoStr)
        ELSE IF key = SPLUNK
        THEN Built([class |-> "SplunkSender",
                    hec_url |-> Or(config.hec_url,
                                   getenv(env, "SPLUNK_HEC_URL",
                                          "https://splunk.example:8088/services/collector")),
                    hec_token |-> Or(config.hec_token,
                                     getenv(env, "SPLUNK_HEC_TOKEN", "demo-hec-token"))])
        ELSE Built([class |-> "ElasticSender",
                    endpoint |-> Or(config.endpoint,
                                    getenv(env, "ELASTIC_ENDPOINT",
                                           "https://elastic.example/_bulk")),
                    token |-> Or(config.token,
                                 getenv(env, "ELASTIC_TOKEN", "demo-token"))])

\* create with the key resolved as "vendor or key_env": an empty vendor
\* argument falls back to SIEM_VENDOR
create_vendor_or_env(vendor, config, env) ==
    LET key_env == env.SIEM_VENDOR
        key_source == IF vendor # NoStr /\ vendor # <<>> THEN vendor ELSE key_env
        key == lower(strip(key_source))
    IN  IF key_source = NoStr \/ key_source = <<>>
        THEN ValueError("SIEM vendor not specified", NoStr)
        ELSE IF key = ELASTIC
        THEN Built([class |-> "ElasticSender",
                    endpoint |-> Or(config.endpoint,
                                    getenv(env, "ELASTIC_ENDPOINT",
                                           "https://elastic.example/_bulk")),
                    token |-> Or(config.token,
                                 getenv(env, "ELASTIC_TOKEN", "demo-token"))])
        ELSE IF key = SPLUNK
        THEN Built([class |-> "SplunkSender",
                    hec_url |-> Or(config.hec_url,
                                   getenv(env, "SPLUNK_HEC_URL",
                                          "https://splunk.example:8088/services/collector")),
                    hec_token |-> Or(config.hec_token,
                                     getenv(env, "SPLUNK_HEC_TOKEN", "demo-hec-token"))])
        ELSE ValueError("Unknown SIEM vendor", vendor)

\* EventSenderFactory.create
create(vendor, config, env) ==
    LET key_env == env.SIEM_VENDOR
        key_source == IF vendor # NoStr THEN vendor ELSE key_env
        key == lower(strip(key_source))
    IN  IF key_source = NoStr \/ key_source = <<>>
        THEN ValueError("SIEM vendor not specified", NoStr)
        ELSE IF key = ELASTIC
        THEN Built([class |-> "ElasticSender",
                    endpoint |-> Or(config.endpoint,
                                    getenv(env, "ELASTIC_ENDPOINT",
                                           "https://elastic.example/_bulk")),
                    token |-> Or(config.token,
                                 getenv(env, "ELASTIC_TOKEN", "demo-token"))])
        ELSE IF key = SPLUNK
        THEN Built([class |-> "SplunkSender",
                    hec_url |-> Or(config.hec_url,
                                   getenv(env, "SPLUNK_HEC_URL",
                                          "https://splunk.example:8088/services/collector")),
                    hec_token |-> Or(config.hec_token,
                                     getenv(env, "SPLUNK_HEC_TOKEN", "demo-hec-token"))])
        ELSE ValueError("Unknown SIEM vendor", vendor)

NotCalled == [called |-> FALSE]

\* the process environment and the arguments of the call about to be made
FactoryInit ==
    /\ fxEnv \in Environments
    /\ fxArgs \in [vendor : VendorArgs, config : Configs]
    /\ fxOut = NotCalled

\* sender = EventSenderFactory.create(vendor, **config)
Create ==
    /\ ~fxOut.called
    /\ fxOut' = [called |-> TRUE, result |-> create(fxArgs.vendor, fxArgs.config, fxEnv)]
    /\ UNCHANGED <<fxEnv, fxArgs>>
    /\ UNCHANGED notFactory

FactoryNext == Create

FactoryIdle ==
    /\ fxEnv = [SIEM_VENDOR |-> NoStr, ELASTIC_ENDPOINT |-> PyNone,
                ELASTIC_TOKEN |-> PyNone, SPLUNK_HEC_URL |-> PyNone,
                SPLUNK_HEC_TOKEN |-> PyNone]
    /\ fxArgs = [vendor |-> NoStr,
                 config |-> [endpoint |-> PyNone, token |-> PyNone,
                             hec_url |-> PyNone, hec_token |-> PyNone]]
    /\ fxOut = NotCalled

(***************************************************************************)
(* design_pattern_singleton_soc.py                                         *)
(***************************************************************************)
MaxDirect == 1
MaxEvents == 2

\* SIEMClient._instance = None; the clients built are numbered from 1
NoClient == 0

\* the call sites of get_instance: AuthMonitor, FirewallMonitor, __main__
Sites == {"auth", "fw", "main"}

\* a caller that builds its own client with SIEMClient()
DirectSites == {"direct"}

\* the keyword arguments of the two send_event calls of the monitors, and
\* of a call whose extra holds a value that has no JSON form ("<object>")
Payloads ==
    {[kind |-> "auth", severity |-> "medium", message |-> "Failed login detected",
      extra |-> [username |-> "alice", ip |-> "203.0.113.25"]],
     [kind |-> "network", severity |-> "high", message |-> "Port scan detected",
      extra |-> [src_ip |-> "198.51.100.10", dst_ip |-> "10.0.0.5"]],
     [kind |-> "system", severity |-> "info", message |-> "Host inventory",
      extra |-> [detail |-> "<object>"]]}

\* SIEMClient.__init__ on a new object (which has no _initialized yet); how
\* records whether get_instance or a direct constructor call built it
NewClient(how) ==
    [source |-> "SOC-Python-Agent", buffer |-> <<>>, _initialized |-> TRUE,
     how |-> how]

\* get_instance without the test of _instance: a new client on every call
get_instance_always ==
    [instance |-> Len(sgObjects) + 1,
     objects |-> Append(sgObjects, NewClient("get_instance"))]

\* SIEMClient.get_instance: the client returned and the objects that exist
get_instance ==
    IF _instance = NoClient
    THEN [instance |-> Len(sgObjects) + 1,
          objects |-> Append(sgObjects, NewClient("get_instance"))]
    ELSE [instance |-> _instance, objects |-> sgObjects]

\* the event send_event builds (its ts, the wall clock second, left out)
EventOf(client, p) ==
    [source |-> client.source, kind |-> p.kind, severity |-> p.severity,
     message |-> p.message, extra |-> p.extra]

\* json.dumps(event) in the print of send_event raises TypeError on a value
\* that has no JSON form
Printable(event) ==
    \A k \in DOMAIN event.extra : event.extra[k] # "<object>"

\* send_event putting the event at the front of the buffer
send_event_front(client, p) ==
    IF Printable(EventOf(client, p))
    THEN [client EXCEPT !.buffer = <<EventOf(client, p)>> \o @]
    ELSE client

\* SIEMClient.send_event: the client after the call; the print comes before
\* the append, so a call that raises in the print leaves the buffer as it was
send_event(client, p) ==
    IF Printable(EventOf(client, p))
    THEN [client EXCEPT !.buffer = Append(@, EventOf(client, p))]
    ELSE client

\* no call on SIEMClient made yet
NoSiemCall == [op |-> "none"]

SingletonInit ==
    /\ _instance = NoClient
    /\ sgObjects = <<>>
    /\ sgHandle = [s \in Sites \cup DirectSites |-> NoClient]
    /\ sgSent = <<>>
    /\ sgCall = NoSiemCall

\* self.siem = SIEMClient.get_instance() / client = SIEMClient.get_instance()
GetInstance(site) ==
    /\ LET r == get_instance
       IN  /\ _instance' = r.instance
           /\ sgObjects' = r.objects
           /\ sgHandle' = [sgHandle EXCEPT ![site] = r.instance]
           /\ sgCall' = [op |-> "get_instance", site |-> site, client |-> r.instance]
    /\ UNCHANGED sgSent
    /\ UNCHANGED notSingleton

\* SIEMClient(): the constructor is public and stores nothing in _instance
Construct(site) ==
    /\ Cardinality({i \in 1..Len(sgObjects) : sgObjects[i].how = "constructor"})
         < MaxDirect
    /\ sgObjects' = Append(sgObjects, NewClient("constructor"))
    /\ sgHandle' = [sgHandle EXCEPT ![site] = Len(sgObjects) + 1]
    /\ sgCall' = [op |-> "constructor", site |-> site, client |-> Len(sgObjects) + 1]
    /\ UNCHANGED <<_instance, sgSent>>
    /\ UNCHANGED notSingleton

\* self.siem.send_event(...) by the holder of a client
SendEvent(site, p) ==
    /\ sgHandle[site] # NoClient
    /\ Len(sgObjects[sgHandle[site]].buffer) < MaxEvents
    /\ sgObjects' = [sgObjects EXCEPT ![sgHandle[site]] = send_event(@, p)]
    /\ sgSent' = IF site \in Sites /\ Printable(EventOf(sgObjects[sgHandle[site]], p))
                 THEN Append(sgSent, [site |-> site,
                                      event |-> EventOf(sgObjects[sgHandle[site]], p)])
                 ELSE sgSent
    /\ sgCall' = [op |-> "send_event", site |-> site, client |-> sgHandle[site],
                  event |-> EventOf(sgObjects[sgHandle[site]], p),
                  before |-> sgObjects[sgHandle[site]].buffer,
                  raised |-> ~Printable(EventOf(sgObjects[sgHandle[site]], p))]
    /\ UNCHANGED <<_instance, sgHandle>>
    /\ UNCHANGED notSingleton

SingletonNext ==
    \/ \E site \in Sites : GetInstance(site)
    \/ \E site \in DirectSites : Construct(site)
    \/ \E site \in Sites \cup DirectSites, p \in Payloads : SendEvent(site, p)

SingletonIdle ==
    /\ _instance = NoClient
    /\ sgObjects = <<>>
    /\ sgHandle = [s \in Sites \cup DirectSites |-> NoClient]
    /\ sgSent = <<>>
    /\ sgCall = NoSiemCall

(***************************************************************************)
(* design_pattern_singleton_soc.py, the call sites calling get_instance    *)
(* from threads of their own. get_instance takes no lock, so the callers'  *)
(* statements interleave.                                                   *)
(***************************************************************************)
\* the local of get_instance: the client constructed at line 65
NoConstructed == [obj |-> NoClient]

SingletonConcInit ==
    /\ _instance = NoClient
    /\ sgObjects = <<>>
    /\ sgHandle = [s \in Sites \cup DirectSites |-> NoClient]
    /\ sgSent = <<>>
    /\ sgCall = NoSiemCall
    /\ thPc = [s \in Sites |-> "idle"]
    /\ thLocal = [s \in Sites |-> NoConstructed]

\* a call site that holds no client yet calls SIEMClient.get_instance()
GetInstance_Call(site) ==
    /\ thPc[site] = "idle"
    /\ sgHandle[site] = NoClient
    /\ Goto(site, "get_64")
    /\ UNCHANGED <<singletonVars, thLocal>>
    /\ UNCHANGED besideSingleton

\* get_instance: if SIEMClient._instance is None
GetInstance_TestInstance(site) ==
    /\ thPc[site] = "get_64"
    /\ Goto(site, IF _instance = NoClient THEN "get_65_call" ELSE "get_66")
    /\ UNCHANGED <<singletonVars, thLocal>>
    /\ UNCHANGED besideSingleton

\* get_instance: SIEMClient(), the constructor call of line 65
GetInstance_Construct(site) ==
    /\ thPc[site] = "get_65_call"
    /\ sgObjects' = Append(sgObjects, NewClient("get_instance"))
    /\ thLocal' = [thLocal EXCEPT ![site].obj = Len(sgObjects) + 1]
    /\ Goto(site, "get_65_store")
    /\ UNCHANGED <<_instance, sgHandle, sgSent, sgCall>>
    /\ UNCHANGED besideSingleton

\* get_instance: SIEMClient._instance = <the client constructed>
GetInstance_StoreInstance(site) ==
    /\ thPc[site] = "get_65_store"
    /\ _instance' = thLocal[site].obj
    /\ Goto(site, "get_66")
    /\ UNCHANGED <<sgObjects, sgHandle, sgSent, sgCall, thLocal>>
    /\ UNCHANGED besideSingleton

\* get_instance: return SIEMClient._instance
GetInstance_Return(site) ==
    /\ thPc[site] = "get_66"
    /\ sgHandle' = [sgHandle EXCEPT ![site] = _instance]
    /\ sgCall' = [op |-> "get_instance", site |-> site, client |-> _instance]
    /\ thLocal' = [thLocal EXCEPT ![site] = NoConstructed]
    /\ Goto(site, "idle")
    /\ UNCHANGED <<_instance, sgObjects, sgSent>>
    /\ UNCHANGED besideSingleton

SingletonConcNext ==
    \/ \E site \in Sites : GetInstance_Call(site)
    \/ \E site \in Sites : GetInstance_TestInstance(site)
    \/ \E site \in Sites : GetInstance_Construct(site)
    \/ \E site \in Sites : GetInstance_StoreInstance(site)
    \/ \E site \in Sites : GetInstance_Return(site)

(***************************************************************************)
(* decorator_design_pattern_soc.py and design_pattern_decorator_soc.py     *)
(* (the two files define the same audit_event)                             *)
(***************************************************************************)
MaxLog == 2

\* the fields audit_event copies from kwargs
Recognized == {"kind", "severity", "username", "ip", "src_ip", "dst_ip", "message"}

\* how the wrapped function ends: by returning a value, by raising an
\* Exception, or by raising a BaseException that is no Exception
Behaviours ==
    {[ends |-> "return", value |-> PyNone],
     [ends |-> "return", value |-> "contents"],
     [ends |-> "raise", error |-> "FileNotFoundError", is_exception |-> TRUE],
     [ends |-> "raise", error |-> "KeyboardInterrupt", is_exception |-> FALSE]}

\* the keyword arguments tried; the value "<object>" has no JSON form
Kwargs ==
    {[file |-> "demo_app.log"],
     [file |-> "demo_app.log", kind |-> "file", severity |-> "low",
      message |-> "Read demo log"],
     [username |-> "alice", ip |-> "203.0.113.25", kind |-> "auth",
      severity |-> "medium", message |-> "Failed login detected"],
     [kind |-> "auth", severity |-> "medium", message |-> "Failed login detected"],
     [file |-> "demo_app.log", kind |-> "<object>"]}

Funcs == {"record_failed_login", "read_text"}

\* the positional parameters of the decorated functions
Params(func) ==
    IF func = "record_failed_login" THEN <<"username", "ip">> ELSE <<"file">>

\* the positional arguments tried: none, or all positional parameters
PositionalArgs(func) ==
    IF func = "record_failed_login"
    THEN {<<>>, <<"alice", "203.0.113.25">>}
    ELSE {<<>>, <<"demo_app.log">>}

\* the audit event with every keyword argument copied into it
AuditEvent_all_kwargs(func, status, duration_ms, kwargs) ==
    [k \in {"func", "status", "duration_ms"} \cup DOMAIN kwargs |->
        CASE k = "func" -> func
          [] k = "status" -> status
          [] k = "duration_ms" -> duration_ms
          [] OTHER -> kwargs[k]]

\* the audit event built in the finally block (ts, the wall clock, left out)
AuditEvent(func, status, duration_ms, kwargs) ==
    [k \in {"func", "status", "duration_ms"} \cup (Recognized \cap DOMAIN kwargs) |->
        CASE k = "func" -> func
          [] k = "status" -> status
          [] k = "duration_ms" -> duration_ms
          [] OTHER -> kwargs[k]]

\* json.dumps(event) raises TypeError on a value that has no JSON form
Serializable(event) ==
    \A k \in Recognized \cap DOMAIN event : event[k] # "<object>"

\* what the caller of the wrapper observes
Returns(v) == [ends |-> "return", value |-> v]
Raises(err) == [ends |-> "raise", error |-> err]

\* audit_event.wrapper: the log it leaves and what its caller observes, for
\* a wrapped function that behaves as b; writable tells whether open() of
\* the log succeeds
wrapper(func, kwargs, b, elapsed, writable, log) ==
    LET status == IF b.ends = "raise" /\ b.is_exception THEN "error" ELSE "ok"
        event == AuditEvent(func, status, elapsed, kwargs)
        pending == IF b.ends = "return" THEN Returns(b.value) ELSE Raises(b.error)
    IN  IF ~writable THEN [log |-> log, observed |-> Raises("OSError")]
        ELSE IF ~Serializable(event) THEN [log |-> log, observed |-> Raises("TypeError")]
        ELSE [log |-> Append(log, event), observed |-> pending]

AuditInit ==
    /\ auLog = <<>>
    /\ auCall = NoCall

\* one call of a function decorated with @audit_event
AuditedCall(func, args, kwargs, b, elapsed, writable) ==
    /\ Len(auLog) < MaxLog
    /\ LET r == wrapper(func, kwargs, b, elapsed, writable, auLog)
       IN  /\ auLog' = r.log
           /\ auCall' = [op |-> "call", func |-> func, args |-> args,
                         kwargs |-> kwargs,
                         behaviour |-> b, writable |-> writable,
                         log_before |-> auLog, observed |-> r.observed]
    /\ UNCHANGED notAudit

\* the names the positional arguments args of func are bound to
BoundNames(func, args) == {Params(func)[i] : i \in 1..Len(args)}

\* the calls tried bind every parameter of the function exactly once and
\* pass no parameter of the other function
AuditNext ==
    \E func \in Funcs, kwargs \in Kwargs :
        \E args \in PositionalArgs(func) :
            /\ BoundNames(func, args) \cap DOMAIN kwargs = {}
            /\ BoundNames(func, Params(func)) \subseteq
                  BoundNames(func, args) \cup DOMAIN kwargs
            /\ \A g \in Funcs :
                  BoundNames(g, Params(g)) \cap DOMAIN kwargs
                    \subseteq BoundNames(func, Params(func))
            /\ \E b \in Behaviours, elapsed \in {0, 3}, writable \in BOOLEAN :
                  AuditedCall(func, args, kwargs, b, elapsed, writable)

AuditIdle ==
    /\ auLog = <<>>
    /\ auCall = NoCall

(***************************************************************************)
(* async_audit.py: one caller issuing the events of the demo, each written *)
(* by _write_jsonl_sync in a worker thread of asyncio.to_thread            *)
(***************************************************************************)
\* the emit_event calls of demo, in the order the caller issues them
Burst ==
    <<[kind |-> "auth", message |-> "Failed login (async)", severity |-> "medium",
       username |-> "alice", ip |-> "203.0.113.25"],
      [kind |-> "network", message |-> "Port scan detected (async)",
       severity |-> "high", username |-> PyNone, ip |-> PyNone],
      [kind |-> "file", message |-> "Malware signature found (async)",
       severity |-> "critical", username |-> PyNone, ip |-> PyNone],
      [kind |-> "auth", message |-> "MFA challenge sent (async)", severity |-> "low",
       username |-> "bob", ip |-> PyNone]>>

Tasks == 1..Len(Burst)

\* the event emit_event builds (its ts, the wall clock second, left out)
emit_event(call) ==
    [k \in {"func", "status", "duration_ms", "kind", "severity", "message"}
            \cup {k \in {"username", "ip"} : Truthy(call[k])} |->
        CASE k = "func" -> "async"
          [] k = "status" -> "ok"
          [] k = "duration_ms" -> 0
          [] OTHER -> call[k]]

\* the caller awaits each emit_event before it issues the next, or issues
\* them all and awaits asyncio.gather as demo does
Modes == {"await", "gather"}

AsyncInit ==
    /\ aaLog = <<>>
    /\ aaMode \in Modes
    /\ thPc = [i \in Tasks |-> "pending"]
    /\ thLocal = [i \in Tasks |-> emit_event(Burst[i])]

\* the event loop runs task i up to its await: the event is built and the
\* write is handed to a worker thread. The loop starts tasks in the order
\* they were issued; an awaiting caller issues the next when the last is done
Emit_ToThread(i) ==
    /\ thPc[i] = "pending"
    /\ i > 1 => IF aaMode = "await" THEN thPc[i - 1] = "done"
                 ELSE thPc[i - 1] # "pending"
    /\ Goto(i, "to_thread_22")
    /\ UNCHANGED <<aaLog, aaMode, thLocal>>
    /\ UNCHANGED besideAsync

\* _write_jsonl_sync in the worker thread: open(path, "a")
Write_Open(i) ==
    /\ thPc[i] = "to_thread_22"
    /\ Goto(i, "to_thread_23")
    /\ UNCHANGED <<aaLog, aaMode, thLocal>>
    /\ UNCHANGED besideAsync

\* _write_jsonl_sync in the worker thread: f.write(line) and the close of
\* the file, which appends the line to the log
Write_Line(i) ==
    /\ thPc[i] = "to_thread_23"
    /\ aaLog' = Append(aaLog, thLocal[i])
    /\ Goto(i, "written")
    /\ UNCHANGED <<aaMode, thLocal>>
    /\ UNCHANGED besideAsync

\* the event loop resumes task i after its await; emit_event returns
Emit_Return(i) ==
    /\ thPc[i] = "written"
    /\ Goto(i, "done")
    /\ UNCHANGED <<aaLog, aaMode, thLocal>>
    /\ UNCHANGED besideAsync

AsyncNext ==
    \/ \E i \in Tasks : Emit_ToThread(i)
    \/ \E i \in Tasks : Write_Open(i)
    \/ \E i \in Tasks : Write_Line(i)
    \/ \E i \in Tasks : Emit_Return(i)

AsyncIdle ==
    /\ aaLog = <<>>
    /\ aaMode = "await"

(***************************************************************************)
(* Specifications: one per program                                         *)
(***************************************************************************)
InitComposite ==
    CompositeInit /\ ProxyIdle /\ FactoryIdle /\ SingletonIdle /\ AuditIdle
    /\ AsyncIdle /\ ThreadsIdle

SpecComposite == InitComposite /\ [][CompositeNext]_vars

InitProxy ==
    ProxyInit /\ CompositeIdle /\ FactoryIdle /\ SingletonIdle /\ AuditIdle
    /\ AsyncIdle /\ ThreadsIdle

SpecProxy == InitProxy /\ [][ProxyNext]_vars

InitFactory ==
    FactoryInit /\ CompositeIdle /\ ProxyIdle /\ SingletonIdle /\ AuditIdle
    /\ AsyncIdle /\ ThreadsIdle

SpecFactory == InitFactory /\ [][FactoryNext]_vars

InitSingleton ==
    SingletonInit /\ CompositeIdle /\ ProxyIdle /\ FactoryIdle /\ AuditIdle
    /\ AsyncIdle /\ ThreadsIdle

SpecSingleton == InitSingleton /\ [][SingletonNext]_vars

InitAudit ==
    AuditInit /\ CompositeIdle /\ ProxyIdle /\ FactoryIdle /\ SingletonIdle
    /\ AsyncIdle /\ ThreadsIdle

SpecAudit == InitAudit /\ [][AuditNext]_vars

InitSingletonConc ==
    SingletonConcInit /\ CompositeIdle /\ ProxyIdle /\ FactoryIdle /\ AuditIdle
    /\ AsyncIdle

SpecSingletonConc == InitSingletonConc /\ [][SingletonConcNext]_vars

InitProxyConc ==
    ProxyConcInit /\ CompositeIdle /\ FactoryIdle /\ SingletonIdle /\ AuditIdle
    /\ AsyncIdle

SpecProxyConc == InitProxyConc /\ [][ProxyConcNext]_vars

\* the tree the demo builds, with the filter the demo gives the on-call group
InitChildren ==
    /\ InitComposite
    /\ allowed_severities = [n \in FilteredComposites |-> FilterOf({"high"})]
    /\ allowed_kinds = [n \in FilteredComposites |-> NoFilter]

SpecChildren == InitChildren /\ [][ChildrenNext]_vars

InitAsync ==
    AsyncInit /\ CompositeIdle /\ ProxyIdle /\ FactoryIdle /\ SingletonIdle
    /\ AuditIdle

SpecAsync == InitAsync /\ [][AsyncNext]_vars

(***************************************************************************)
(* Claims about composite_design_pattern_soc.py (SpecComposite)            *)
(***************************************************************************)
\* the calls of trace tr made by composite n itself
Direct(tr, n) == SelectSeq(tr, LAMBDA x : x.caller = n)

\* one call per child of n, in registration order, each with event e
OnePerChild(n, e) == [i \in 1..Len(children[n]) |-> CallOf(n, children[n][i], e)]

IsPrefix(s, t) == Len(s) <= Len(t) /\ s = SubSeq(t, 1, Len(s))

\* the places of trace tr where a failing leaf was called
FailedAt(tr, failing) == {i \in 1..Len(tr) : tr[i].sink \in failing}

\* C1: a send on a CompositeSink in which no child raises calls every child
\* exactly once, in registration order, with the event that was passed in
C1_FanOutInOrder ==
    (csCall.op = "send" /\ csCall.target \in PlainComposites /\ ~csCall.raised)
        => Direct(csCall.trace, csCall.target)
             = OnePerChild(csCall.target, csCall.event)

C1_Witness ==
    /\ csCall.op = "send" /\ csCall.target = "root" /\ ~csCall.raised
    /\ Len(Direct(csCall.trace, "root")) >= 3
    /\ Len(csCall.trace) > Len(Direct(csCall.trace, "root"))

\* C2: a child that raises ends the send at once: the failing call is the
\* last call of the whole send, the exception leaves every enclosing
\* composite, and the children after the failing one are never called
C2_RaiseAbortsFanOut ==
    csCall.op = "send" =>
        LET tr == csCall.trace
            bad == FailedAt(tr, csCall.failing)
        IN  /\ csCall.raised <=> bad # {}
            /\ bad # {} => bad = {Len(tr)}
            /\ IsPrefix(Direct(tr, csCall.target),
                        OnePerChild(csCall.target, csCall.event))

C2_Witness ==
    /\ csCall.op = "send" /\ csCall.target = "root" /\ csCall.raised
    /\ csCall.trace[Len(csCall.trace)].caller # "root"
    /\ Len(Direct(csCall.trace, "root")) < Len(children["root"])

\* the filter condition as the specification words it
Allowed(n, e) ==
    /\ allowed_severities[n].unset
         \/ ("severity" \in DOMAIN e /\ e.severity \in allowed_severities[n].items)
    /\ allowed_kinds[n].unset
         \/ ("kind" \in DOMAIN e /\ e.kind \in allowed_kinds[n].items)

\* C3: a FilteredCompositeSink forwards the event to its children exactly
\* when both filters allow it; otherwise it calls no child and returns
C3_FilterIffAllowed ==
    (csCall.op = "send" /\ csCall.target \in FilteredComposites) =>
        LET n == csCall.target
            tr == csCall.trace
        IN  IF Allowed(n, csCall.event)
            THEN /\ IsPrefix(Direct(tr, n), OnePerChild(n, csCall.event))
                 /\ ~csCall.raised => Direct(tr, n) = OnePerChild(n, csCall.event)
                 /\ children[n] # <<>> => tr # <<>>
            ELSE tr = <<>> /\ ~csCall.raised

C3_Witness ==
    /\ csCall.op = "send" /\ csCall.target \in FilteredComposites
    /\ children[csCall.target] # <<>>
    /\ ~allowed_severities[csCall.target].unset
    /\ allowed_severities[csCall.target].items # {}
    /\ Get(csCall.event, "severity") = "medium"
    /\ csCall.trace = <<>> /\ ~csCall.raised

\* the tree and the filter the demo builds
DemoTree ==
    /\ children = [n \in Composites |->
                     CASE n = "root" -> <<"eu", "us", "oncall">>
                       [] n = "eu" -> <<"elastic">>
                       [] n = "us" -> <<"splunk">>
                       [] n = "oncall" -> <<"splunk">>]
    /\ allowed_severities["oncall"] = FilterOf({"high"})
    /\ allowed_kinds["oncall"] = NoFilter

\* the event AuthMonitor.record_failed_login("alice", "203.0.113.25") sends
FailedLogin ==
    [kind |-> "auth", severity |-> "medium", message |-> "Failed login detected",
     username |-> "alice", ip |-> "203.0.113.25"]

\* the calls of trace tr that reached sink c
Received(tr, c) == SelectSeq(tr, LAMBDA x : x.sink = c)

\* C13: in the demo tree an auth event of severity medium sent to root
\* reaches elastic exactly once (through eu) and splunk exactly once
\* (through us), and the oncall group forwards nothing
C13_DemoScenario ==
    (/\ DemoTree
     /\ csCall.op = "send" /\ csCall.target = "root"
     /\ csCall.event = FailedLogin /\ csCall.failing = {})
        => /\ ~csCall.raised
           /\ Received(csCall.trace, "elastic") = <<CallOf("eu", "elastic", FailedLogin)>>
           /\ Received(csCall.trace, "splunk") = <<CallOf("us", "splunk", FailedLogin)>>
           /\ Direct(csCall.trace, "oncall") = <<>>
           /\ Len(Received(csCall.trace, "oncall")) = 1

C13_Witness ==
    /\ DemoTree
    /\ csCall.op = "send" /\ csCall.target = "root"
    /\ csCall.event = FailedLogin /\ csCall.failing = {}
    /\ Len(csCall.trace) = 5

\* whether sink n lets event e through to its children
Passes(n, e) == n \notin FilteredComposites \/ Allowed(n, e)

\* the number of paths from sink n down to leaf l on which no filter blocks
\* event e (PathsVia: through the children s of a sink)
RECURSIVE Paths(_, _, _)
RECURSIVE PathsVia(_, _, _)
PathsVia(s, l, e) ==
    IF s = <<>> THEN 0 ELSE Paths(Head(s), l, e) + PathsVia(Tail(s), l, e)

Paths(n, l, e) ==
    IF n = l THEN 1
    ELSE IF n \in Leaves \/ ~Passes(n, e) THEN 0
    ELSE PathsVia(children[n], l, e)

\* C28: fan-out does not deduplicate: in a send that completes a leaf gets
\* one call per unfiltered path from the target; in the demo tree a
\* severity-high event sent to root reaches splunk twice (through us, then
\* through oncall) and elastic once
C28_NoDeduplication ==
    (csCall.op = "send" /\ ~csCall.raised) =>
        LET tr == csCall.trace
            e == csCall.event
        IN  /\ \A l \in Leaves :
                  Len(Received(tr, l)) = Paths(csCall.target, l, e)
            /\ (DemoTree /\ csCall.target = "root" /\ Get(e, "severity") = "high")
                 => /\ Received(tr, "splunk")
                         = <<CallOf("us", "splunk", e), CallOf("oncall", "splunk", e)>>
                    /\ Received(tr, "elastic") = <<CallOf("eu", "elastic", e)>>

C28_Witness ==
    /\ DemoTree
    /\ csCall.op = "send" /\ csCall.target = "root" /\ ~csCall.raised
    /\ Get(csCall.event, "severity") = "high"
    /\ Len(Received(csCall.trace, "splunk")) = 2
    /\ Len(csCall.trace) = 6

\* C29: a filter that is set blocks every event lacking the field it
\* tests, a filter set to the empty set blocks every event, and a send is
\* let through on a field only by an unset filter or by a value in the set
C29_SetFilterBlocksMissing ==
    (csCall.op = "send" /\ csCall.target \in FilteredComposites) =>
        LET n == csCall.target
            e == csCall.event
            blocked == csCall.trace = <<>> /\ ~csCall.raised
            sev == allowed_severities[n]
            kinds == allowed_kinds[n]
        IN  /\ (~sev.unset /\ "severity" \notin DOMAIN e) => blocked
            /\ (~kinds.unset /\ "kind" \notin DOMAIN e) => blocked
            /\ (~sev.unset /\ sev.items = {}) => blocked
            /\ (~kinds.unset /\ kinds.items = {}) => blocked
            /\ (children[n] # <<>> /\ ~blocked)
                 => /\ sev.unset \/ e.severity \in sev.items
                    /\ kinds.unset \/ e.kind \in kinds.items
            /\ (sev.unset /\ kinds.unset /\ children[n] # <<>>) => ~blocked

C29_Witness ==
    /\ csCall.op = "send" /\ csCall.target \in FilteredComposites
    /\ children[csCall.target] # <<>>
    /\ allowed_severities[csCall.target] = FilterOf({"high"})
    /\ allowed_kinds[csCall.target].unset
    /\ "severity" \notin DOMAIN csCall.event
    /\ csCall.trace = <<>> /\ ~csCall.raised

\* the first place of c in sequence s
FirstAt(s, c) == CHOOSE i \in 1..Len(s) : s[i] = c /\ \A j \in 1..(i - 1) : s[j] # c

\* sequence s without its element at place i
WithoutAt(s, i) == SubSeq(s, 1, i - 1) \o SubSeq(s, i + 1, Len(s))

\* C30: add appends the child at the end; remove deletes the first
\* occurrence only and keeps the order of the others; remove of a sink that
\* is not a child raises and changes nothing; add(c) then remove(c) on a
\* composite that did not hold c gives back the sequence before the add
C30_AddRemove ==
    [][\A n \in Composites, c \in Sinks :
          /\ Add(n, c) =>
                /\ children'[n] = children[n] \o <<c>>
                /\ \A m \in Composites \ {n} : children'[m] = children[m]
          /\ Remove(n, c) =>
                /\ \A m \in Composites \ {n} : children'[m] = children[m]
                /\ IF InSeq(children[n], c)
                   THEN /\ ~csCall'.raised
                        /\ children'[n] = WithoutAt(children[n], FirstAt(children[n], c))
                   ELSE /\ csCall'.raised
                        /\ children'[n] = children[n]
          /\ (/\ Remove(n, c)
              /\ csCall.op = "add" /\ csCall.target = n /\ csCall.child = c
              /\ ~InSeq(csCall.before, c))
                => children'[n] = csCall.before]_vars

C30_Witness ==
    /\ csCall.op = "remove" /\ ~csCall.raised
    /\ Len(csCall.before) = 3
    /\ csCall.before[1] = csCall.child /\ csCall.before[2] # csCall.child
    /\ csCall.before[3] = csCall.child
    /\ children[csCall.target] = Tail(csCall.before)

(***************************************************************************)
(* Claims about design_pattern_proxy_soc.py (SpecProxy)                    *)
(***************************************************************************)
Min(a, b) == IF a <= b THEN a ELSE b

\* the last call was a send that reached the real sender
Admitted == pxCall.op = "send" /\ pxCall.result \in {"delegated", "failed"}

\* C4: without a credential every send fails with the authorization error
\* and changes nothing: counter and window start keep their values, the
\* slot of the real sender stays empty, nothing is delegated
C4_UnauthorizedChangesNothing ==
    ~Truthy(token) =>
        /\ pxCall.op = "send" => pxCall.result = "unauthorized"
        /\ count_in_window = 0
        /\ last_window_start = 0
        /\ real = NoSender
        /\ pxBuilt = 0
        /\ pxWin = NewWindow

C4_Witness ==
    /\ ~Truthy(token)
    /\ pxCall.op = "send" /\ pxCall.result = "unauthorized"
    /\ pxCall.at >= TicksPerSec
    /\ rate_limit_per_sec > 0

\* the sends of one window: the first R reach the real sender, the others
\* are dropped, and the counter is the number that reached it
FirstRThenDropped ==
    /\ pxWin.delegated = Min(pxWin.seen, rate_limit_per_sec)
    /\ pxWin.dropped = pxWin.seen - pxWin.delegated
    /\ count_in_window = pxWin.delegated
    /\ pxCall.op = "send" =>
         /\ Admitted <=> pxCall.before.seen < rate_limit_per_sec
         /\ pxCall.result = "dropped" <=> pxCall.before.seen >= rate_limit_per_sec

\* C5 as stated: with a credential, of R+1 sends in one window the first R
\* are delegated and the last is dropped, and the first send of a new
\* window resets the counter and is admitted
C5_Original ==
    Truthy(token) =>
        /\ FirstRThenDropped
        /\ (pxCall.op = "send" /\ pxCall.expired) =>
             pxCall.before = NewWindow /\ Admitted

\* C5 as amended: the first send of a new window resets the counter and is
\* admitted when the budget is at least 1; with a budget of 0 it is dropped
C5_BudgetPerWindow ==
    Truthy(token) =>
        /\ FirstRThenDropped
        /\ (pxCall.op = "send" /\ pxCall.expired) =>
             /\ pxCall.before = NewWindow
             /\ Admitted <=> rate_limit_per_sec >= 1

C5_Witness ==
    /\ Truthy(token) /\ rate_limit_per_sec = 2
    /\ pxCall.op = "send" /\ pxCall.expired /\ Admitted
    /\ pxCall.closed = [seen |-> 3, delegated |-> 2, dropped |-> 1]
    /\ count_in_window = 1

\* C6: the real sender is constructed at most once: the slot, once filled,
\* keeps the first sender built, and every admitted send goes to it
C6_RealBuiltAtMostOnce ==
    /\ pxBuilt <= 1
    /\ real = NoSender <=> pxBuilt = 0
    /\ real # NoSender => real = 1
    /\ Admitted => pxCall.via = 1 /\ real = 1

C6_Witness ==
    /\ pxBuilt = 1 /\ real = 1
    /\ Admitted /\ pxCall.expired /\ pxCall.closed.delegated >= 1

\* the counter of the window that time now falls in
WindowCount ==
    IF now - last_window_start >= TicksPerSec THEN 0 ELSE count_in_window

\* the budget of the window that time now falls in is used up
Exhausted == WindowCount >= rate_limit_per_sec

\* C18: a send with a credential that finds the budget of the current
\* window exhausted is dropped: it returns without raising, constructs no
\* real sender, calls none, and does not increment the counter
C18_DropChangesNothing ==
    [][\A e \in ProxyEvents, fails \in BOOLEAN :
          (SendAuthorized(e, fails) /\ Exhausted)
            => /\ pxCall'.result = "dropped"
               /\ pxCall'.via = NoSender
               /\ real' = real
               /\ pxBuilt' = pxBuilt
               /\ count_in_window' = WindowCount]_vars

C18_Witness ==
    /\ Truthy(token)
    /\ pxCall.op = "send" /\ pxCall.result = "dropped"
    /\ real = NoSender /\ pxBuilt = 0

\* no thread is inside send
Quiescent == \A t \in Threads : thPc[t] = "idle"

\* C14: under every interleaving of concurrent first sends the real sender
\* is constructed exactly once
C14_Original ==
    /\ pxBuilt <= 1
    /\ (Quiescent /\ pxWin.delegated > 0) => pxBuilt = 1

\* C15: after concurrent sends inside one window the counter equals the
\* number of admitted events, which does not exceed the budget
C15_Original ==
    (Quiescent /\ now < TicksPerSec)
        => /\ count_in_window = pxWin.delegated
           /\ pxWin.delegated <= rate_limit_per_sec

\* C26: the counter stays between 0 and the budget in every state reached
\* by sends and clock advances, and the events delegated between two window
\* resets never exceed the budget
C26_CounterWithinBudget ==
    /\ 0 <= count_in_window /\ count_in_window <= rate_limit_per_sec
    /\ pxWin.delegated <= rate_limit_per_sec
    /\ (pxCall.op = "send" /\ pxCall.expired)
         => pxCall.closed.delegated <= rate_limit_per_sec

C26_Witness ==
    /\ rate_limit_per_sec >= 1
    /\ count_in_window = rate_limit_per_sec
    /\ pxWin.delegated = rate_limit_per_sec /\ pxWin.dropped >= 1
    /\ last_window_start >= TicksPerSec

\* C27: a send that is admitted and whose delegated send raises has consumed
\* its rate slot: the counter is one more than the window held before the
\* call and is not rolled back
C27_FailedSendKeepsSlot ==
    [][\A e \in ProxyEvents :
          (SendAuthorized(e, TRUE) /\ ~Exhausted)
            => /\ pxCall'.result = "failed"
               /\ count_in_window' = WindowCount + 1
               /\ pxWin'.delegated = count_in_window']_vars

C27_Witness ==
    /\ pxCall.op = "send" /\ pxCall.result = "failed"
    /\ pxCall.before.seen = 0 /\ pxCall.via = 1
    /\ count_in_window = 1

(***************************************************************************)
(* Claims about design_pattern_factory_soc.py (SpecFactory)                *)
(***************************************************************************)
\* the call failed with the configuration error and constructed no sender
FailedUnbuilt(r) == r.raised /\ r.error = "ValueError" /\ r.built = <<>>

\* C7: create fails with the configuration error, constructing no sender,
\* when the vendor argument is not a known vendor, and when no vendor is
\* passed while SIEM_VENDOR is not set
C7_UnknownOrMissingVendorFails ==
    fxOut.called =>
        /\ (fxArgs.vendor # NoStr /\ lower(strip(fxArgs.vendor)) \notin Registry)
             => FailedUnbuilt(fxOut.result)
        /\ (fxArgs.vendor = NoStr /\ fxEnv.SIEM_VENDOR = NoStr)
             => FailedUnbuilt(fxOut.result)

C7_Witness ==
    /\ fxOut.called
    /\ fxArgs.vendor = <<"s", "u", "m", "o">>
    /\ fxEnv.SIEM_VENDOR = SPLUNK
    /\ fxArgs.config.endpoint = "cfg-endpoint"
    /\ FailedUnbuilt(fxOut.result)

\* what a call must do when the vendor key it resolves is k: fail as not
\* specified for an empty key, build the sender of a known key, fail as
\* unknown otherwise
ResolvedAs(r, k) ==
    IF k = <<>> THEN r.raised /\ r.message = "SIEM vendor not specified"
    ELSE IF lower(strip(k)) = ELASTIC THEN ~r.raised /\ r.sender.class = "ElasticSender"
    ELSE IF lower(strip(k)) = SPLUNK THEN ~r.raised /\ r.sender.class = "SplunkSender"
    ELSE r.raised /\ r.message = "Unknown SIEM vendor"

\* C17: a vendor argument that is passed always decides the key, whatever
\* SIEM_VENDOR holds; SIEM_VENDOR decides it only when no vendor argument is
\* passed; with neither the call fails as vendor not specified
C17_ExplicitVendorWins ==
    fxOut.called =>
        /\ fxArgs.vendor # NoStr => ResolvedAs(fxOut.result, fxArgs.vendor)
        /\ (fxArgs.vendor = NoStr /\ fxEnv.SIEM_VENDOR # NoStr)
             => ResolvedAs(fxOut.result, fxEnv.SIEM_VENDOR)
        /\ (fxArgs.vendor = NoStr /\ fxEnv.SIEM_VENDOR = NoStr)
             => /\ FailedUnbuilt(fxOut.result)
                /\ fxOut.result.message = "SIEM vendor not specified"

C17_Witness ==
    /\ fxOut.called
    /\ fxArgs.vendor = <<"S", "P", "L", "U", "N", "K">>
    /\ fxEnv.SIEM_VENDOR = <<"E", "L", "A", "S", "T", "I", "C">>
    /\ ~fxOut.result.raised
    /\ fxOut.result.sender.class = "SplunkSender"

\* the source the vendor key of the call is resolved from
KeySource == IF fxArgs.vendor # NoStr THEN fxArgs.vendor ELSE fxEnv.SIEM_VENDOR

\* C21: when the resolved vendor key is not a known vendor, from the
\* argument or from SIEM_VENDOR, the error raised names that key
C21_Original ==
    (fxOut.called /\ fxOut.result.raised
       /\ fxOut.result.message = "Unknown SIEM vendor")
        => fxOut.result.named = KeySource

\* explicit config value if passed, else the environment's if set, else
\* the built-in literal
Precedence(explicit, default, literal) ==
    IF explicit # PyNone THEN explicit
    ELSE IF default # PyNone THEN default
    ELSE literal

\* C22: every field of a sender built takes the explicit config value when
\* one is passed, else the environment value when one is set, else the
\* vendor's literal
C22_Original ==
    (fxOut.called /\ ~fxOut.result.raised) =>
        LET sender == fxOut.result.sender
            config == fxArgs.config
        IN  IF sender.class = "ElasticSender"
            THEN /\ sender.endpoint = Precedence(config.endpoint, fxEnv.ELASTIC_ENDPOINT,
                                                 "https://elastic.example/_bulk")
                 /\ sender.token = Precedence(config.token, fxEnv.ELASTIC_TOKEN,
                                              "demo-token")
            ELSE /\ sender.hec_url = Precedence(config.hec_url, fxEnv.SPLUNK_HEC_URL,
                                                "https://splunk.example:8088/services/collector")
                 /\ sender.hec_token = Precedence(config.hec_token, fxEnv.SPLUNK_HEC_TOKEN,
                                                  "demo-hec-token")

(***************************************************************************)
(* Claims about design_pattern_singleton_soc.py (SpecSingleton)            *)
(***************************************************************************)
\* the clients that get_instance constructed
BuiltByGetInstance ==
    {i \in 1..Len(sgObjects) : sgObjects[i].how = "get_instance"}

\* C8: every get_instance call returns the same instance: the first call
\* constructs it, no later call constructs another or replaces the one stored
C8_GetInstanceSameInstance ==
    /\ Cardinality(BuiltByGetInstance) <= 1
    /\ _instance # NoClient <=> BuiltByGetInstance # {}
    /\ _instance # NoClient => BuiltByGetInstance = {_instance}
    /\ \A site \in Sites : sgHandle[site] # NoClient => sgHandle[site] = _instance

C8_Witness ==
    /\ \A site \in Sites : sgHandle[site] # NoClient
    /\ sgHandle["direct"] # NoClient
    /\ sgObjects[_instance].buffer # <<>>

\* C9: the events sent through the handles of the get_instance call sites
\* are all in the buffer of the one shared client, in the order of the calls
C9_SharedBufferInCallOrder ==
    IF _instance = NoClient THEN sgSent = <<>>
    ELSE sgObjects[_instance].buffer = [i \in 1..Len(sgSent) |-> sgSent[i].event]

C9_Witness ==
    /\ Len(sgSent) >= 2
    /\ sgSent[1].site # sgSent[2].site
    /\ sgSent[1].event # sgSent[2].event
    /\ Len(sgObjects) >= 2

\* C16: under every interleaving of concurrent first get_instance calls
\* exactly one SIEMClient is constructed and every caller receives it
C16_Original ==
    /\ Cardinality(BuiltByGetInstance) <= 1
    /\ \A s1, s2 \in Sites :
          (sgHandle[s1] # NoClient /\ sgHandle[s2] # NoClient)
            => sgHandle[s1] = sgHandle[s2]

\* C19: after any sequence of get_instance calls and constructor calls there
\* are never two distinct SIEMClient instances
C19_Original == Len(sgObjects) <= 1

\* C20: every send_event call appends exactly one event at the end of the
\* buffer, so the buffer before the call is a prefix of the buffer after it
C20_Original ==
    sgCall.op = "send_event"
        => sgObjects[sgCall.client].buffer = Append(sgCall.before, sgCall.event)

(***************************************************************************)
(* Claims about the audit decorator (SpecAudit)                            *)
(***************************************************************************)
\* the events the last call appended to the log
Appended == SubSeq(auLog, Len(auCall.log_before) + 1, Len(auLog))

\* C10: when the wrapped operation raises, exactly one audit event, with
\* status "error", is recorded and the caller observes the original error
C10_Original ==
    (auCall.op = "call" /\ auCall.behaviour.ends = "raise") =>
        /\ Len(Appended) = 1
        /\ Appended[1].status = "error"
        /\ auCall.observed = Raises(auCall.behaviour.error)

\* the outcome of the wrapped operation itself
OwnOutcome(b) == IF b.ends = "return" THEN Returns(b.value) ELSE Raises(b.error)

\* C11: every invocation of an audited operation records exactly one audit
\* event, whether the operation returns or raises
C11_Original == auCall.op = "call" => Len(Appended) = 1

\* C12: recording the audit event never raises to the caller and never
\* replaces the outcome of the operation, also when the write fails
C12_Original ==
    auCall.op = "call" => auCall.observed = OwnOutcome(auCall.behaviour)

\* the value the caller supplied for parameter k, positionally or by keyword
SuppliedValue(k) ==
    IF k \in DOMAIN auCall.kwargs THEN auCall.kwargs[k]
    ELSE auCall.args[CHOOSE i \in 1..Len(auCall.args) : Params(auCall.func)[i] = k]

\* the recognized fields the caller supplied, positionally or by keyword
SuppliedFields ==
    Recognized \cap (DOMAIN auCall.kwargs \cup BoundNames(auCall.func, auCall.args))

\* the fields the wrapper itself puts into every event
OwnFields == {"func", "status", "duration_ms"}

\* C23 as stated: the recorded event carries a recognized field if and only
\* if the caller supplied it, with the value supplied, and no other
\* caller-supplied field
C23_Original ==
    (auCall.op = "call" /\ Len(Appended) = 1) =>
        /\ DOMAIN Appended[1] = OwnFields \cup SuppliedFields
        /\ \A k \in SuppliedFields : Appended[1][k] = SuppliedValue(k)

\* C23: the recorded event carries a recognized field if and only if the
\* caller passed it as a keyword argument, with the value passed; a field
\* passed positionally, and any other keyword argument, is not recorded
C23_KeywordFieldsRecorded ==
    (auCall.op = "call" /\ Len(Appended) = 1) =>
        /\ DOMAIN Appended[1] = OwnFields \cup (Recognized \cap DOMAIN auCall.kwargs)
        /\ \A k \in Recognized \cap DOMAIN auCall.kwargs :
              Appended[1][k] = auCall.kwargs[k]

C23_Witness ==
    /\ auCall.op = "call" /\ Len(Appended) = 1
    /\ auCall.func = "record_failed_login"
    /\ auCall.args = <<"alice", "203.0.113.25">>
    /\ DOMAIN Appended[1] = OwnFields \cup {"kind", "severity", "message"}

\* C24: the status recorded is "ok" exactly when the operation returned,
\* the wrapper then returning its result, and "error" exactly when it raised
C24_Original ==
    (auCall.op = "call" /\ Len(Appended) = 1) =>
        /\ Appended[1].status = "ok" <=> auCall.behaviour.ends = "return"
        /\ Appended[1].status = "error" <=> auCall.behaviour.ends = "raise"
        /\ auCall.behaviour.ends = "return"
             => auCall.observed = Returns(auCall.behaviour.value)

\* the place of a logged event in the order the caller issued the events
IssuedAt(event) == CHOOSE i \in Tasks : emit_event(Burst[i]) = event

\* C25: the events the caller issues reach the log in the order it issued
\* them, awaited one by one or gathered as a burst
C25_Original ==
    \A m, n \in 1..Len(aaLog) : m < n => IssuedAt(aaLog[m]) < IssuedAt(aaLog[n])

=============================================================================
